---- MODULE Spec2Model ----
(***************************************************************************)
(* Model of receipt_demon.py: the category registry, weighted random       *)
(* selection, select_category, generate_content and the CLI entry point    *)
(* main.                                                                   *)
(*                                                                         *)
(* Reals are kept in tenths: a weight or temperature of 1.0 is 10, 1.5 is  *)
(* 15, 2 is 20.  An optional Python value (None or a string) is a record   *)
(* [present, val]; None is [present |-> FALSE, val |-> ""].  Text returned *)
(* by the service is a sequence of one-character strings.  Prompt texts    *)
(* are abbreviated to their opening words.                                 *)
(***************************************************************************)
EXTENDS Integers, Sequences, FiniteSets, TLC

VARIABLES pc, entry, apiKey, requested, temperature, category, stdout,
          requests, clients, randomCalls, response, result, exit

vars == <<pc, entry, apiKey, requested, temperature, category, stdout,
          requests, clients, randomCalls, response, result, exit>>

\* ------------------------------------------------------------------------
\* Bounds of the model

\* longest text body the service returns
MaxContentLen == 3

\* ------------------------------------------------------------------------
\* Optional values

None == [present |-> FALSE, val |-> ""]

Some(s) == [present |-> TRUE, val |-> s]

\* Python truthiness of an optional string: None and "" are falsy
Falsy(o) == (~o.present) \/ o.val = ""

\* ------------------------------------------------------------------------
\* Static tables

BASE_SYSTEM_PROMPT == "You are GRIT, a sentient thermal printer ..."

\* list(CATEGORY_PROMPTS.keys()): the keys in insertion order
CategoryKeys ==
  << "ascii_art", "consent_form", "paranoid_prophecy",
     "haunted_shopping_list", "error_log_poetry", "confession",
     "glitch_children", "actual_receipt", "restroom_graffiti",
     "lost_found_slip", "receipt_forgotten_purchases", "rituals",
     "status_updates", "dream_logs", "survival_tips", "warnings",
     "found_notes", "copypasta", "psychic_post", "breakdown",
     "serious_now" >>

CATEGORY_PROMPTS ==
  [ ascii_art |-> "Write a thermal receipt output made of ASCII art ...",
    consent_form |-> "Write an unsigned consent form ...",
    paranoid_prophecy |-> "Write a paranoid prophecy ...",
    haunted_shopping_list |-> "Write a shopping list including false names ...",
    error_log_poetry |-> "Write glitch poetry as if it were system error logs ...",
    confession |-> "Write a confession that is scattered and gushing ...",
    glitch_children |-> "Write about glitch children ...",
    actual_receipt |-> "Write a receipt that looks like a real one ...",
    restroom_graffiti |-> "Write restroom graffiti ...",
    lost_found_slip |-> "Write a lost/found slip listing missing items ...",
    receipt_forgotten_purchases |-> "Write a receipt for forgotten purchases ...",
    rituals |-> "Write a short DIY ritual instruction or divination ...",
    status_updates |-> "Write a fake status update from a haunted printer ...",
    dream_logs |-> "Write a dream log line ...",
    survival_tips |-> "Write a survival tip that is paranoid and useless ...",
    warnings |-> "Write a short warning or alert ...",
    found_notes |-> "Write a found note or scribbled letter ...",
    copypasta |-> "Write a fake Facebook/social media post ...",
    psychic_post |-> "Write an unhinged spiritual social media post ...",
    breakdown |-> "Write a that feels like a spiralling, insane mind ...",
    serious_now |-> "Write a message that feels like a serious, normal plea for help ..." ]

\* weights in tenths
CATEGORY_WEIGHTS ==
  [ ascii_art |-> 10, consent_form |-> 10, paranoid_prophecy |-> 10,
    haunted_shopping_list |-> 15, error_log_poetry |-> 10,
    confession |-> 10, glitch_children |-> 10, actual_receipt |-> 20,
    restroom_graffiti |-> 10, lost_found_slip |-> 10,
    receipt_forgotten_purchases |-> 10, rituals |-> 10,
    status_updates |-> 10, dream_logs |-> 10, survival_tips |-> 10,
    warnings |-> 10, found_notes |-> 10, copypasta |-> 10,
    psychic_post |-> 10, breakdown |-> 10 ]

Registered == DOMAIN CATEGORY_PROMPTS

\* ------------------------------------------------------------------------
\* weighted_random_category

WeightOf_zero_default(c) ==
  IF c \in DOMAIN CATEGORY_WEIGHTS THEN CATEGORY_WEIGHTS[c] ELSE 0

\* CATEGORY_WEIGHTS.get(c, 1.0)
WeightOf(c) ==
  IF c \in DOMAIN CATEGORY_WEIGHTS THEN CATEGORY_WEIGHTS[c] ELSE 10

\* weights = [CATEGORY_WEIGHTS.get(c, 1.0) for c in categories]
Weights(categories) == [i \in 1..Len(categories) |-> WeightOf(categories[i])]

RECURSIVE Accumulate(_, _)
\* itertools.accumulate(weights)[i], as random.choices computes cum_weights
Accumulate(weights, i) ==
  IF i = 0 THEN 0 ELSE Accumulate(weights, i - 1) + weights[i]

\* total = cum_weights[-1]
Total == Accumulate(Weights(CategoryKeys), Len(CategoryKeys))

\* bisect(cum_weights, x, 0, n - 1): the number of the first n-1 cumulative
\* weights that are <= x (0-based index of the chosen population element)
Bisect(weights, x) ==
  Cardinality({i \in 1..(Len(weights) - 1) : Accumulate(weights, i) <= x})

\* random.choices(categories, weights=weights, k=1)[0], where x is the
\* draw random() * total, a point of [0, total)
weighted_random_category(x) ==
  CategoryKeys[Bisect(Weights(CategoryKeys), x) + 1]

\* the draws random() * total can take, to the precision of the weights
Draws == 0..(Total - 1)

\* ------------------------------------------------------------------------
\* Console output and results

\* print(f"Unknown category '{requested}'. Selecting a random one...")
Notice(name) == [kind |-> "notice", name |-> name, text |-> <<>>]

\* print(f"Error: {exc}")
ErrorLine(msg) == [kind |-> "error", name |-> "", text |-> msg]

\* print(f"--- Category: {category} ---\n{content}\n")
Banner(name, content) == [kind |-> "banner", name |-> name, text |-> content]

NoResult == [kind |-> "none", type |-> "", val |-> <<>>]

Return(v) == [kind |-> "return", type |-> "", val |-> v]

Raise(t, msg) == [kind |-> "raise", type |-> t, val |-> msg]

\* ------------------------------------------------------------------------
\* select_category

select_category_noisy(req, x) ==
  IF req.present /\ req.val \in Registered
  THEN [ret |-> req.val, out |-> <<>>, draws |-> 0]
  ELSE [ret |-> weighted_random_category(x),
        out |-> <<Notice(req.val)>>, draws |-> 1]

select_category_always_random(req, x) ==
  IF Falsy(req) \/ req.val \in Registered
  THEN [ret |-> weighted_random_category(x), out |-> <<>>, draws |-> 1]
  ELSE [ret |-> weighted_random_category(x),
        out |-> <<Notice(req.val)>>, draws |-> 1]

\* select_category(requested) with the random draw x: the value returned,
\* the lines printed and the number of random selections made
select_category(req, x) ==
  IF Falsy(req)
  THEN [ret |-> weighted_random_category(x), out |-> <<>>, draws |-> 1]
  ELSE IF req.val \notin Registered
  THEN [ret |-> weighted_random_category(x),
        out |-> <<Notice(req.val)>>, draws |-> 1]
  ELSE [ret |-> req.val, out |-> <<>>, draws |-> 0]

\* ------------------------------------------------------------------------
\* generate_content

Whitespace == {" ", "\n"}

Chars == Whitespace \cup {"x"}

RECURSIVE LStrip(_)
LStrip(s) ==
  IF s # <<>> /\ Head(s) \in Whitespace THEN LStrip(Tail(s)) ELSE s

RECURSIVE RStrip(_)
RStrip(s) ==
  IF s # <<>> /\ s[Len(s)] \in Whitespace
  THEN RStrip(SubSeq(s, 1, Len(s) - 1))
  ELSE s

\* str.strip()
Strip(s) == RStrip(LStrip(s))

RECURSIVE Join(_, _)
\* sep.join(keys), as the parts of the joined string
Join(sep, keys) ==
  IF keys = <<>> THEN <<>>
  ELSE IF Len(keys) = 1 THEN keys
  ELSE <<Head(keys), sep>> \o Join(sep, Tail(keys))

UnknownCategoryMsg(c) ==
  <<"Unknown category '", c, "'. Available categories: ">>
    \o Join(", ", CategoryKeys)

MissingKeyMsg ==
  <<"OPENAI_API_KEY environment variable is not set. ",
    "Set it to your OpenAI API secret key before running.">>

CommunicationMsg(m) == <<"Error communicating with OpenAI API: ", m>>

IndexErrorMsg == <<"list index out of range">>

\* temperature: float = 2
GenerateDefaultTemperature == 20

\* parser.add_argument("--temperature", type=float, default=1.0)
MainDefaultTemperature == 10

\* max_tokens=400
MaxTokens == 400

\* the chat completion request generate_content builds
Request(c, t) ==
  [model |-> "gpt-4.1", system |-> BASE_SYSTEM_PROMPT,
   user |-> CATEGORY_PROMPTS[c],
   temperature |-> IF t.present THEN t.val ELSE GenerateDefaultTemperature,
   max_tokens |-> MaxTokens]

generate_content_checks_key_first(c, key) ==
  IF Falsy(key) THEN Raise("ValueError", MissingKeyMsg)
  ELSE IF c \notin Registered THEN Raise("ValueError", UnknownCategoryMsg(c))
  ELSE NoResult

generate_content_checks_none_only(c, key) ==
  IF c \notin Registered THEN Raise("ValueError", UnknownCategoryMsg(c))
  ELSE IF ~key.present THEN Raise("ValueError", MissingKeyMsg)
  ELSE NoResult

\* the two guards at the head of generate_content: the exception raised, or
\* NoResult when the function goes on to build the client
generate_content_checks(c, key) ==
  IF c \notin Registered THEN Raise("ValueError", UnknownCategoryMsg(c))
  ELSE IF Falsy(key) THEN Raise("ValueError", MissingKeyMsg)
  ELSE NoResult

\* the tail of generate_content, from the service's answer svc: the except
\* clause around the call, then response.choices[0].message.content and
\* (content or "").strip()
generate_content_extract(svc) ==
  IF svc.kind = "raise" THEN Raise("RuntimeError", CommunicationMsg(svc.msg))
  ELSE IF svc.choices = <<>> THEN Raise("IndexError", IndexErrorMsg)
  ELSE LET content == svc.choices[1]
       IN  Return(Strip(IF content.present THEN content.val ELSE <<>>))

\* ------------------------------------------------------------------------
\* Inputs: command lines, direct calls, the environment, the service

\* strings that are not keys of CATEGORY_PROMPTS
UnregisteredNames == {"not_a_real_one", "ASCII_ART"}

\* args.category and the argument of select_category
CategoryArgs ==
  {None, Some("")} \cup {Some(c) : c \in Registered \cup UnregisteredNames}

\* the category argument of generate_content
GenerateCategories == Registered \cup UnregisteredNames \cup {""}

NoTemperature == [present |-> FALSE, val |-> 0]

\* --temperature / the temperature argument, omitted or 0.5, 1.0, 1.2
TemperatureArgs ==
  {NoTemperature} \cup {[present |-> TRUE, val |-> t] : t \in {5, 10, 12}}

\* os.getenv("OPENAI_API_KEY")
ApiKeys == {None, Some(""), Some("sk-test")}

NoContent == [present |-> FALSE, val |-> <<>>]

\* message.content of a completion choice: None or a text
Contents ==
  {NoContent} \cup
  {[present |-> TRUE, val |-> s] :
     s \in UNION {[1..n -> Chars] : n \in 0..MaxContentLen}}

\* response.choices: no choice, one choice, or two
ChoiceLists ==
  {<<>>} \cup {<<c>> : c \in Contents}
    \cup {<<NoContent, [present |-> TRUE, val |-> <<"x">>]>>,
          <<[present |-> TRUE, val |-> <<"x", " ">>], NoContent>>}

NoAnswer == [kind |-> "none", msg |-> "", choices |-> <<>>]

\* what client.chat.completions.create does: raises, or returns a response
ServiceAnswers ==
  {[kind |-> "raise", msg |-> m, choices |-> <<>>] :
     m \in {"Connection error.", "401 Unauthorized"}}
    \cup {[kind |-> "response", msg |-> "", choices |-> ch] :
            ch \in ChoiceLists}

\* ------------------------------------------------------------------------
\* The state machine

Init ==
  /\ pc = "start"
  /\ entry = ""
  /\ apiKey \in ApiKeys
  /\ requested = None
  /\ temperature = NoTemperature
  /\ category = ""
  /\ stdout = <<>>
  /\ requests = <<>>
  /\ clients = 0
  /\ randomCalls = 0
  /\ response = NoAnswer
  /\ result = NoResult
  /\ exit = "running"

\* python receipt_demon.py [--category c] [--temperature t]: main up to
\* args = parser.parse_args()
CallMain ==
  /\ pc = "start"
  /\ \E c \in CategoryArgs, t \in TemperatureArgs :
       /\ requested' = c
       /\ temperature' =
            IF t.present THEN t
            ELSE [present |-> TRUE, val |-> MainDefaultTemperature]
  /\ entry' = "main"
  /\ pc' = "select"
  /\ UNCHANGED <<apiKey, category, stdout, requests, clients, randomCalls,
                 response, result, exit>>

\* a caller of the module calls select_category(c)
CallSelectCategory ==
  /\ pc = "start"
  /\ \E c \in CategoryArgs : requested' = c
  /\ entry' = "select_category"
  /\ pc' = "select"
  /\ UNCHANGED <<apiKey, temperature, category, stdout, requests, clients,
                 randomCalls, response, result, exit>>

\* a caller of the module calls generate_content(c) or
\* generate_content(c, t)
CallGenerateContent ==
  /\ pc = "start"
  /\ \E c \in GenerateCategories, t \in TemperatureArgs :
       /\ category' = c
       /\ temperature' = t
  /\ entry' = "generate_content"
  /\ pc' = "generate"
  /\ UNCHANGED <<apiKey, requested, stdout, requests, clients, randomCalls,
                 response, result, exit>>

\* the body of select_category; in main, category = select_category(...)
SelectCategory ==
  /\ pc = "select"
  /\ \E x \in Draws :
       LET r == select_category(requested, x)
       IN  /\ category' = r.ret
           /\ stdout' = stdout \o r.out
           /\ randomCalls' = randomCalls + r.draws
           /\ IF entry = "main"
              THEN /\ pc' = "generate"
                   /\ UNCHANGED <<result, exit>>
              ELSE /\ pc' = "done"
                   /\ result' = Return(<<r.ret>>)
                   /\ exit' = "returned"
  /\ UNCHANGED <<entry, apiKey, requested, temperature, requests, clients,
                 response>>

\* generate_content from its head to the call of the service: the two
\* guards, OpenAI(api_key=api_key), the messages, completions.create(...)
GenerateContentRequest ==
  /\ pc = "generate"
  /\ LET chk == generate_content_checks(category, apiKey)
     IN  IF chk.kind = "raise"
         THEN /\ result' = chk
              /\ IF entry = "main"
                 THEN pc' = "report" /\ UNCHANGED exit
                 ELSE pc' = "done" /\ exit' = "raised"
              /\ UNCHANGED <<clients, requests>>
         ELSE /\ clients' = clients + 1
              /\ requests' = Append(requests, Request(category, temperature))
              /\ pc' = "await"
              /\ UNCHANGED <<result, exit>>
  /\ UNCHANGED <<entry, apiKey, requested, temperature, category, stdout,
                 randomCalls, response>>

GenerateContentResponse_retry ==
  /\ pc = "await"
  /\ \E svc \in ServiceAnswers :
       /\ response' = svc
       /\ IF svc.kind = "raise" /\ Len(requests) < 2
          THEN /\ requests' = Append(requests, Request(category, temperature))
               /\ pc' = "await"
               /\ UNCHANGED <<result, exit>>
          ELSE /\ result' = generate_content_extract(svc)
               /\ UNCHANGED requests
               /\ IF entry = "main"
                  THEN pc' = "report" /\ UNCHANGED exit
                  ELSE /\ pc' = "done"
                       /\ exit' = IF svc.kind = "raise" \/ svc.choices = <<>>
                                  THEN "raised" ELSE "returned"
  /\ UNCHANGED <<entry, apiKey, requested, temperature, category, stdout,
                 clients, randomCalls>>

\* generate_content from the service's answer to its return or raise
GenerateContentResponse ==
  /\ pc = "await"
  /\ \E svc \in ServiceAnswers :
       /\ response' = svc
       /\ result' = generate_content_extract(svc)
  /\ IF entry = "main"
     THEN pc' = "report" /\ UNCHANGED exit
     ELSE /\ pc' = "done"
          /\ exit' = IF result'.kind = "raise" THEN "raised" ELSE "returned"
  /\ UNCHANGED <<entry, apiKey, requested, temperature, category, stdout,
                 requests, clients, randomCalls>>

MainReport_banner_after_error ==
  /\ pc = "report"
  /\ stdout' =
       IF result.kind = "raise"
       THEN stdout \o <<ErrorLine(result.val), Banner(category, <<>>)>>
       ELSE Append(stdout, Banner(category, result.val))
  /\ exit' = "returned"
  /\ pc' = "done"
  /\ UNCHANGED <<entry, apiKey, requested, temperature, category, requests,
                 clients, randomCalls, response, result>>

MainReport_requested_name ==
  /\ pc = "report"
  /\ stdout' =
       Append(stdout,
              IF result.kind = "raise" THEN ErrorLine(result.val)
              ELSE Banner(IF Falsy(requested) THEN category ELSE requested.val,
                          result.val))
  /\ exit' = "returned"
  /\ pc' = "done"
  /\ UNCHANGED <<entry, apiKey, requested, temperature, category, requests,
                 clients, randomCalls, response, result>>

\* the end of main: the except clause prints the error and returns,
\* otherwise the banner and the text are printed
MainReport ==
  /\ pc = "report"
  /\ stdout' =
       Append(stdout,
              IF result.kind = "raise" THEN ErrorLine(result.val)
              ELSE Banner(category, result.val))
  /\ exit' = "returned"
  /\ pc' = "done"
  /\ UNCHANGED <<entry, apiKey, requested, temperature, category, requests,
                 clients, randomCalls, response, result>>

Next ==
  \/ CallMain
  \/ CallSelectCategory
  \/ CallGenerateContent
  \/ SelectCategory
  \/ GenerateContentRequest
  \/ GenerateContentResponse
  \/ MainReport

Spec == Init /\ [][Next]_vars

TypeOK ==
  /\ pc \in {"start", "select", "generate", "await", "report", "done"}
  /\ entry \in {"", "main", "select_category", "generate_content"}
  /\ exit \in {"running", "returned", "raised"}
  /\ clients \in 0..1
  /\ randomCalls \in 0..1

\* ------------------------------------------------------------------------
\* Views of the state used by the properties

IsNotice(e) == e.kind = "notice"

IsError(e) == e.kind = "error"

IsBanner(e) == e.kind = "banner"

Notices == SelectSeq(stdout, IsNotice)

Errors == SelectSeq(stdout, IsError)

Banners == SelectSeq(stdout, IsBanner)

\* select_category has run to its end
Selected ==
  /\ entry \in {"main", "select_category"}
  /\ pc \notin {"start", "select"}

\* generate_content has run to its end
Generated ==
  /\ entry \in {"main", "generate_content"}
  /\ pc \in {"report", "done"}

UnknownRequested == (~Falsy(requested)) /\ requested.val \notin Registered

\* the categories weighted random selection can return
Selectable == {weighted_random_category(x) : x \in Draws}

\* ------------------------------------------------------------------------
\* C1: select_category(c) for a registered c returns c unchanged, prints no
\* notice and makes no random selection.
C1_RegisteredReturnedUnchanged ==
  (Selected /\ requested.present /\ requested.val \in Registered)
    => /\ category = requested.val
       /\ entry = "select_category" => stdout = <<>>
       /\ Notices = <<>>
       /\ randomCalls = 0
       /\ entry = "select_category" => result = Return(<<requested.val>>)

C1_Witness ==
  /\ entry = "select_category"
  /\ pc = "done"
  /\ requested = Some("actual_receipt")
  /\ result = Return(<<"actual_receipt">>)

\* C2: select_category(s) for s None, empty or unregistered returns a
\* registered identifier; the notice naming s is printed exactly when s is
\* non-empty and unregistered, and not when s is None or empty.
C2_FallbackReturnsRegistered ==
  (Selected /\ (Falsy(requested) \/ requested.val \notin Registered))
    => /\ category \in Registered
       /\ randomCalls = 1
       /\ Notices = IF UnknownRequested
                    THEN <<Notice(requested.val)>>
                    ELSE <<>>
       /\ entry = "select_category" => result = Return(<<category>>)

C2_Witness ==
  /\ entry = "select_category"
  /\ pc = "done"
  /\ requested = Some("not_a_real_one")
  /\ stdout = <<Notice("not_a_real_one")>>
  /\ category = "serious_now"

\* C3: generate_content with an unregistered category raises the
\* invalid-argument ValueError and makes no network call, with or without
\* the credential.
C3_UnregisteredRaisesWithoutCall ==
  (entry = "generate_content" /\ category \notin Registered)
    => /\ pc \in {"generate", "done"}
       /\ requests = <<>>
       /\ clients = 0
       /\ pc = "done" =>
            /\ result = Raise("ValueError", UnknownCategoryMsg(category))
            /\ exit = "raised"

C3_Witness ==
  /\ entry = "generate_content"
  /\ pc = "done"
  /\ category = "not_a_real_one"
  /\ ~Falsy(apiKey)
  /\ result.type = "ValueError"

\* C4: generate_content with a registered category and the credential
\* absent or empty raises the configuration error; no client is built and
\* no request is sent.
C4_MissingKeyRaisesWithoutCall ==
  (entry \in {"main", "generate_content"} /\ category \in Registered
     /\ Falsy(apiKey))
    => /\ pc # "await"
       /\ requests = <<>>
       /\ clients = 0
       /\ Generated => result = Raise("ValueError", MissingKeyMsg)
       /\ (Generated /\ entry = "generate_content") => exit = "raised"

C4_Witness ==
  /\ entry = "generate_content"
  /\ pc = "done"
  /\ category = "ascii_art"
  /\ apiKey = Some("")
  /\ result = Raise("ValueError", MissingKeyMsg)

\* C5: a run of main in which generation fails prints exactly one Error
\* output, no banner, and returns normally; a run in which generation
\* succeeds prints the banner with the text and no Error output.
C5_MainReportsOnce ==
  (entry = "main" /\ pc = "done")
    => /\ exit = "returned"
       /\ result.kind \in {"raise", "return"}
       /\ result.kind = "raise" =>
            /\ Errors = <<ErrorLine(result.val)>>
            /\ Banners = <<>>
            /\ stdout[Len(stdout)].kind = "error"
       /\ result.kind = "return" =>
            /\ Banners = <<Banner(category, result.val)>>
            /\ Errors = <<>>
            /\ stdout[Len(stdout)].kind = "banner"

C5_Witness ==
  /\ entry = "main"
  /\ pc = "done"
  /\ result = Raise("IndexError", IndexErrorMsg)
  /\ stdout = <<ErrorLine(IndexErrorMsg)>>
  /\ exit = "returned"

\* C6 as stated: every run of main issues exactly one network call.
C6_ExactlyOneCallEveryRun ==
  (entry = "main" /\ pc = "done") => Len(requests) = 1

\* C6 as amended: a run of main issues at most one request and never
\* repeats it; a finished run has issued exactly one when the credential is
\* present and non-empty, and none when it is absent or empty.
C6_OneCallWhenKeyPresent ==
  entry = "main"
    => /\ Len(requests) <= 1
       /\ clients = Len(requests)
       /\ pc \in {"await", "report", "done"} =>
            Len(requests) = IF Falsy(apiKey) THEN 0 ELSE 1

C6_Witness ==
  /\ entry = "main"
  /\ pc = "done"
  /\ result.type = "RuntimeError"
  /\ response.kind = "raise"
  /\ Len(requests) = 1

\* the text body of the service's answer: the first choice's content, and
\* the empty text when there is no choice or no content
PrimaryText ==
  IF response.choices = <<>> THEN <<>>
  ELSE IF response.choices[1].present THEN response.choices[1].val
  ELSE <<>>

\* C7: when the call completes without a transport failure generate_content
\* returns the primary text body stripped of surrounding whitespace, and
\* the empty string, without failing, when there is no text or no choice.
C7_ReturnsStrippedTextOrEmpty ==
  (Generated /\ response.kind = "response")
    => result = Return(Strip(PrimaryText))

\* C8: generate_content called without a temperature submits 1.0, the
\* default of --temperature.
C8_DefaultTemperatureIsOne ==
  (entry = "generate_content" /\ ~temperature.present /\ requests # <<>>)
    => requests[1].temperature = MainDefaultTemperature

\* C9: in a run of main with an unregistered non-empty --category the
\* notice naming it is printed before the request is issued and before any
\* banner or Error output, and a banner names a registered category, the
\* one whose prompt was sent.
C9_NoticeFirstBannerMatchesRequest ==
  (entry = "main" /\ UnknownRequested)
    => /\ (requests # <<>> \/ Errors # <<>> \/ Banners # <<>>) =>
            /\ stdout # <<>>
            /\ stdout[1] = Notice(requested.val)
            /\ Len(Notices) = 1
       /\ \A i \in 1..Len(stdout) :
            stdout[i].kind = "banner" =>
              /\ i > 1
              /\ stdout[i].name \in Registered
              /\ Len(requests) = 1
              /\ requests[1].user = CATEGORY_PROMPTS[stdout[i].name]
              /\ \A c \in Registered :
                   requests[1].user = CATEGORY_PROMPTS[c] => c = stdout[i].name

C9_Witness ==
  /\ entry = "main"
  /\ pc = "done"
  /\ requested = Some("not_a_real_one")
  /\ Len(stdout) = 2
  /\ stdout[1] = Notice("not_a_real_one")
  /\ stdout[2] = Banner("actual_receipt", <<"x">>)

\* C10: the candidates of weighted random selection are exactly the
\* registry keys, each weighted by its table entry or 1.0 without one
\* (serious_now), every key of the weight table is a registry key, every
\* weight is positive, and so the possible results are exactly the
\* registered categories.
C10_EveryRegisteredSelectable ==
  /\ {CategoryKeys[i] : i \in 1..Len(CategoryKeys)} = Registered
  /\ Len(CategoryKeys) = Cardinality(Registered)
  /\ DOMAIN CATEGORY_WEIGHTS \subseteq Registered
  /\ "serious_now" \notin DOMAIN CATEGORY_WEIGHTS
  /\ \A i \in 1..Len(CategoryKeys) :
       /\ Weights(CategoryKeys)[i] > 0
       /\ CategoryKeys[i] \in DOMAIN CATEGORY_WEIGHTS =>
            Weights(CategoryKeys)[i] = CATEGORY_WEIGHTS[CategoryKeys[i]]
       /\ CategoryKeys[i] \notin DOMAIN CATEGORY_WEIGHTS =>
            Weights(CategoryKeys)[i] = 10
  /\ Selectable = Registered
  /\ randomCalls > 0 => category \in Registered

C10_Witness ==
  /\ randomCalls = 1
  /\ requested = None
  /\ category = "serious_now"

====
